---------------------------- MODULE Spec2Model ----------------------------
(***************************************************************************)
(* Model of LD-PDP-ASCII-Unicode-Diacritics-Analyzer-Tool.py: the run of   *)
(* main() (fetch, in-memory database, classification by NFD form, the      *)
(* fixed "other occurrences" table, the report) as a state machine.        *)
(*                                                                         *)
(* Representation.  A Unicode scalar value is its code point (an integer); *)
(* a Python str of such values is a sequence of code points.  ASCII text   *)
(* the program parses or formats (the "U+0061 U+0331" patterns, the        *)
(* "U+00E1" labels, the letters of a character name) is a sequence of      *)
(* one-character strings, so that split(), int(.., 16), the :04X format    *)
(* and the substring test are computed, not assumed.                       *)
(*                                                                         *)
(* The tables UnicodeName, UnicodeCategory and UnicodeDecomposition are    *)
(* the excerpt of the Unicode Character Database (version 14.0, the data   *)
(* of Python's unicodedata) for the code points the model uses.            *)
(***************************************************************************)
EXTENDS Integers, Sequences, FiniteSets, TLC

\* Longest sequence of candidate characters handed to the program.
MaxLen == 3

(***************************************************************************)
(* Unicode Character Database excerpt                                      *)
(***************************************************************************)
UnicodeName ==
       (65 :> "LATIN CAPITAL LETTER A")   \* U+0041
    @@ (97 :> "LATIN SMALL LETTER A")   \* U+0061
    @@ (98 :> "LATIN SMALL LETTER B")   \* U+0062
    @@ (101 :> "LATIN SMALL LETTER E")   \* U+0065
    @@ (103 :> "LATIN SMALL LETTER G")   \* U+0067
    @@ (105 :> "LATIN SMALL LETTER I")   \* U+0069
    @@ (109 :> "LATIN SMALL LETTER M")   \* U+006D
    @@ (110 :> "LATIN SMALL LETTER N")   \* U+006E
    @@ (111 :> "LATIN SMALL LETTER O")   \* U+006F
    @@ (114 :> "LATIN SMALL LETTER R")   \* U+0072
    @@ (197 :> "LATIN CAPITAL LETTER A WITH RING ABOVE")   \* U+00C5
    @@ (225 :> "LATIN SMALL LETTER A WITH ACUTE")   \* U+00E1
    @@ (230 :> "LATIN SMALL LETTER AE")   \* U+00E6
    @@ (481 :> "LATIN SMALL LETTER A WITH DOT ABOVE AND MACRON")   \* U+01E1
    @@ (509 :> "LATIN SMALL LETTER AE WITH ACUTE")   \* U+01FD
    @@ (551 :> "LATIN SMALL LETTER A WITH DOT ABOVE")   \* U+0227
    @@ (768 :> "COMBINING GRAVE ACCENT")   \* U+0300
    @@ (769 :> "COMBINING ACUTE ACCENT")   \* U+0301
    @@ (771 :> "COMBINING TILDE")   \* U+0303
    @@ (772 :> "COMBINING MACRON")   \* U+0304
    @@ (775 :> "COMBINING DOT ABOVE")   \* U+0307
    @@ (776 :> "COMBINING DIAERESIS")   \* U+0308
    @@ (778 :> "COMBINING RING ABOVE")   \* U+030A
    @@ (803 :> "COMBINING DOT BELOW")   \* U+0323
    @@ (807 :> "COMBINING CEDILLA")   \* U+0327
    @@ (817 :> "COMBINING MACRON BELOW")   \* U+0331
    @@ (7865 :> "LATIN SMALL LETTER E WITH DOT BELOW")   \* U+1EB9
    @@ (7885 :> "LATIN SMALL LETTER O WITH DOT BELOW")   \* U+1ECD
    @@ (8491 :> "ANGSTROM SIGN")   \* U+212B
    @@ (20013 :> "CJK UNIFIED IDEOGRAPH-4E2D")   \* U+4E2D

UnicodeCategory ==
       (65 :> <<"L", "u">>)   \* U+0041
    @@ (97 :> <<"L", "l">>)   \* U+0061
    @@ (98 :> <<"L", "l">>)   \* U+0062
    @@ (101 :> <<"L", "l">>)   \* U+0065
    @@ (103 :> <<"L", "l">>)   \* U+0067
    @@ (105 :> <<"L", "l">>)   \* U+0069
    @@ (109 :> <<"L", "l">>)   \* U+006D
    @@ (110 :> <<"L", "l">>)   \* U+006E
    @@ (111 :> <<"L", "l">>)   \* U+006F
    @@ (114 :> <<"L", "l">>)   \* U+0072
    @@ (128 :> <<"C", "c">>)   \* U+0080
    @@ (197 :> <<"L", "u">>)   \* U+00C5
    @@ (225 :> <<"L", "l">>)   \* U+00E1
    @@ (230 :> <<"L", "l">>)   \* U+00E6
    @@ (481 :> <<"L", "l">>)   \* U+01E1
    @@ (509 :> <<"L", "l">>)   \* U+01FD
    @@ (551 :> <<"L", "l">>)   \* U+0227
    @@ (768 :> <<"M", "n">>)   \* U+0300
    @@ (769 :> <<"M", "n">>)   \* U+0301
    @@ (771 :> <<"M", "n">>)   \* U+0303
    @@ (772 :> <<"M", "n">>)   \* U+0304
    @@ (775 :> <<"M", "n">>)   \* U+0307
    @@ (776 :> <<"M", "n">>)   \* U+0308
    @@ (778 :> <<"M", "n">>)   \* U+030A
    @@ (803 :> <<"M", "n">>)   \* U+0323
    @@ (807 :> <<"M", "n">>)   \* U+0327
    @@ (817 :> <<"M", "n">>)   \* U+0331
    @@ (7865 :> <<"L", "l">>)   \* U+1EB9
    @@ (7885 :> <<"L", "l">>)   \* U+1ECD
    @@ (8491 :> <<"L", "u">>)   \* U+212B
    @@ (20013 :> <<"L", "o">>)   \* U+4E2D

UnicodeDecomposition ==
       (197 :> <<65, 778>>)   \* U+00C5 -> 0041 030A
    @@ (225 :> <<97, 769>>)   \* U+00E1 -> 0061 0301
    @@ (481 :> <<551, 772>>)   \* U+01E1 -> 0227 0304
    @@ (509 :> <<230, 769>>)   \* U+01FD -> 00E6 0301
    @@ (551 :> <<97, 775>>)   \* U+0227 -> 0061 0307
    @@ (7865 :> <<101, 803>>)   \* U+1EB9 -> 0065 0323
    @@ (7885 :> <<111, 803>>)   \* U+1ECD -> 006F 0323
    @@ (8491 :> <<197>>)   \* U+212B -> 00C5

NameChars ==
       ("LATIN CAPITAL LETTER A" :>
           <<"L", "A", "T", "I", "N", " ", "C", "A", "P", "I", "T", "A", "L", " ", "L", "E", "T", "T", "E", "R", " ", "A">>)
    @@ ("LATIN SMALL LETTER A" :>
           <<"L", "A", "T", "I", "N", " ", "S", "M", "A", "L", "L", " ", "L", "E", "T", "T", "E", "R", " ", "A">>)
    @@ ("LATIN SMALL LETTER B" :>
           <<"L", "A", "T", "I", "N", " ", "S", "M", "A", "L", "L", " ", "L", "E", "T", "T", "E", "R", " ", "B">>)
    @@ ("LATIN SMALL LETTER E" :>
           <<"L", "A", "T", "I", "N", " ", "S", "M", "A", "L", "L", " ", "L", "E", "T", "T", "E", "R", " ", "E">>)
    @@ ("LATIN SMALL LETTER G" :>
           <<"L", "A", "T", "I", "N", " ", "S", "M", "A", "L", "L", " ", "L", "E", "T", "T", "E", "R", " ", "G">>)
    @@ ("LATIN SMALL LETTER I" :>
           <<"L", "A", "T", "I", "N", " ", "S", "M", "A", "L", "L", " ", "L", "E", "T", "T", "E", "R", " ", "I">>)
    @@ ("LATIN SMALL LETTER M" :>
           <<"L", "A", "T", "I", "N", " ", "S", "M", "A", "L", "L", " ", "L", "E", "T", "T", "E", "R", " ", "M">>)
    @@ ("LATIN SMALL LETTER N" :>
           <<"L", "A", "T", "I", "N", " ", "S", "M", "A", "L", "L", " ", "L", "E", "T", "T", "E", "R", " ", "N">>)
    @@ ("LATIN SMALL LETTER O" :>
           <<"L", "A", "T", "I", "N", " ", "S", "M", "A", "L", "L", " ", "L", "E", "T", "T", "E", "R", " ", "O">>)
    @@ ("LATIN SMALL LETTER R" :>
           <<"L", "A", "T", "I", "N", " ", "S", "M", "A", "L", "L", " ", "L", "E", "T", "T", "E", "R", " ", "R">>)
    @@ ("LATIN CAPITAL LETTER A WITH RING ABOVE" :>
           <<"L", "A", "T", "I", "N", " ", "C", "A", "P", "I", "T", "A", "L", " ", "L", "E", "T", "T", "E", "R", " ", "A", " ", "W", "I", "T", "H", " ", "R", "I", "N", "G", " ", "A", "B", "O", "V", "E">>)
    @@ ("LATIN SMALL LETTER A WITH ACUTE" :>
           <<"L", "A", "T", "I", "N", " ", "S", "M", "A", "L", "L", " ", "L", "E", "T", "T", "E", "R", " ", "A", " ", "W", "I", "T", "H", " ", "A", "C", "U", "T", "E">>)
    @@ ("LATIN SMALL LETTER AE" :>
           <<"L", "A", "T", "I", "N", " ", "S", "M", "A", "L", "L", " ", "L", "E", "T", "T", "E", "R", " ", "A", "E">>)
    @@ ("LATIN SMALL LETTER A WITH DOT ABOVE AND MACRON" :>
           <<"L", "A", "T", "I", "N", " ", "S", "M", "A", "L", "L", " ", "L", "E", "T", "T", "E", "R", " ", "A", " ", "W", "I", "T", "H", " ", "D", "O", "T", " ", "A", "B", "O", "V", "E", " ", "A", "N", "D", " ", "M", "A", "C", "R", "O", "N">>)
    @@ ("LATIN SMALL LETTER AE WITH ACUTE" :>
           <<"L", "A", "T", "I", "N", " ", "S", "M", "A", "L", "L", " ", "L", "E", "T", "T", "E", "R", " ", "A", "E", " ", "W", "I", "T", "H", " ", "A", "C", "U", "T", "E">>)
    @@ ("LATIN SMALL LETTER A WITH DOT ABOVE" :>
           <<"L", "A", "T", "I", "N", " ", "S", "M", "A", "L", "L", " ", "L", "E", "T", "T", "E", "R", " ", "A", " ", "W", "I", "T", "H", " ", "D", "O", "T", " ", "A", "B", "O", "V", "E">>)
    @@ ("COMBINING GRAVE ACCENT" :>
           <<"C", "O", "M", "B", "I", "N", "I", "N", "G", " ", "G", "R", "A", "V", "E", " ", "A", "C", "C", "E", "N", "T">>)
    @@ ("COMBINING ACUTE ACCENT" :>
           <<"C", "O", "M", "B", "I", "N", "I", "N", "G", " ", "A", "C", "U", "T", "E", " ", "A", "C", "C", "E", "N", "T">>)
    @@ ("COMBINING TILDE" :>
           <<"C", "O", "M", "B", "I", "N", "I", "N", "G", " ", "T", "I", "L", "D", "E">>)
    @@ ("COMBINING MACRON" :>
           <<"C", "O", "M", "B", "I", "N", "I", "N", "G", " ", "M", "A", "C", "R", "O", "N">>)
    @@ ("COMBINING DOT ABOVE" :>
           <<"C", "O", "M", "B", "I", "N", "I", "N", "G", " ", "D", "O", "T", " ", "A", "B", "O", "V", "E">>)
    @@ ("COMBINING DIAERESIS" :>
           <<"C", "O", "M", "B", "I", "N", "I", "N", "G", " ", "D", "I", "A", "E", "R", "E", "S", "I", "S">>)
    @@ ("COMBINING RING ABOVE" :>
           <<"C", "O", "M", "B", "I", "N", "I", "N", "G", " ", "R", "I", "N", "G", " ", "A", "B", "O", "V", "E">>)
    @@ ("COMBINING DOT BELOW" :>
           <<"C", "O", "M", "B", "I", "N", "I", "N", "G", " ", "D", "O", "T", " ", "B", "E", "L", "O", "W">>)
    @@ ("COMBINING CEDILLA" :>
           <<"C", "O", "M", "B", "I", "N", "I", "N", "G", " ", "C", "E", "D", "I", "L", "L", "A">>)
    @@ ("COMBINING MACRON BELOW" :>
           <<"C", "O", "M", "B", "I", "N", "I", "N", "G", " ", "M", "A", "C", "R", "O", "N", " ", "B", "E", "L", "O", "W">>)
    @@ ("LATIN SMALL LETTER E WITH DOT BELOW" :>
           <<"L", "A", "T", "I", "N", " ", "S", "M", "A", "L", "L", " ", "L", "E", "T", "T", "E", "R", " ", "E", " ", "W", "I", "T", "H", " ", "D", "O", "T", " ", "B", "E", "L", "O", "W">>)
    @@ ("LATIN SMALL LETTER O WITH DOT BELOW" :>
           <<"L", "A", "T", "I", "N", " ", "S", "M", "A", "L", "L", " ", "L", "E", "T", "T", "E", "R", " ", "O", " ", "W", "I", "T", "H", " ", "D", "O", "T", " ", "B", "E", "L", "O", "W">>)
    @@ ("ANGSTROM SIGN" :>
           <<"A", "N", "G", "S", "T", "R", "O", "M", " ", "S", "I", "G", "N">>)
    @@ ("CJK UNIFIED IDEOGRAPH-4E2D" :>
           <<"C", "J", "K", " ", "U", "N", "I", "F", "I", "E", "D", " ", "I", "D", "E", "O", "G", "R", "A", "P", "H", "-", "4", "E", "2", "D">>)

PATTERNS ==
    <<
      <<"U", "+", "0", "0", "6", "1", " ", "U", "+", "0", "3", "3", "1">>,   \* "U+0061 U+0331"
      <<"U", "+", "0", "0", "6", "5", " ", "U", "+", "0", "3", "3", "1">>,   \* "U+0065 U+0331"
      <<"U", "+", "0", "0", "6", "7", " ", "U", "+", "0", "3", "0", "3">>,   \* "U+0067 U+0303"
      <<"U", "+", "0", "0", "6", "9", " ", "U", "+", "0", "3", "3", "1">>,   \* "U+0069 U+0331"
      <<"U", "+", "0", "0", "6", "D", " ", "U", "+", "0", "3", "2", "7">>,   \* "U+006D U+0327"
      <<"U", "+", "0", "0", "6", "E", " ", "U", "+", "0", "3", "0", "4">>,   \* "U+006E U+0304"
      <<"U", "+", "0", "0", "6", "E", " ", "U", "+", "0", "3", "0", "8">>,   \* "U+006E U+0308"
      <<"U", "+", "0", "0", "6", "F", " ", "U", "+", "0", "3", "2", "7">>,   \* "U+006F U+0327"
      <<"U", "+", "0", "0", "6", "F", " ", "U", "+", "0", "3", "3", "1">>,   \* "U+006F U+0331"
      <<"U", "+", "0", "0", "7", "2", " ", "U", "+", "0", "3", "0", "3">>,   \* "U+0072 U+0303"
      <<"U", "+", "1", "E", "B", "9", " ", "U", "+", "0", "3", "0", "0">>,   \* "U+1EB9 U+0300"
      <<"U", "+", "1", "E", "B", "9", " ", "U", "+", "0", "3", "0", "1">>,   \* "U+1EB9 U+0301"
      <<"U", "+", "1", "E", "C", "D", " ", "U", "+", "0", "3", "0", "0">>,   \* "U+1ECD U+0300"
      <<"U", "+", "1", "E", "C", "D", " ", "U", "+", "0", "3", "0", "1">>   \* "U+1ECD U+0301"
    >>

(***************************************************************************)
(* Library functions the program calls                                     *)
(***************************************************************************)

\* unicodedata.name(c, default): the name, or default when c has none.
unicodedata_name(c, default) ==
    IF c \in DOMAIN UnicodeName THEN UnicodeName[c] ELSE default

\* unicodedata.category(c): the two-letter General Category ("Cn": unassigned).
unicodedata_category(c) ==
    IF c \in DOMAIN UnicodeCategory THEN UnicodeCategory[c] ELSE <<"C", "n">>

\* unicodedata.decomposition(c): the character's decomposition mapping
\* (empty when it has none), kept as code points rather than as hex text.
unicodedata_decomposition(c) ==
    IF c \in DOMAIN UnicodeDecomposition THEN UnicodeDecomposition[c] ELSE <<>>

\* The letters of a name string (TLA+ strings cannot be indexed).
CharsOfName(name) ==
    IF name \in DOMAIN NameChars THEN NameChars[name] ELSE <<>>

RECURSIVE ConcatAll(_)
ConcatAll(seqs) ==
    IF seqs = <<>> THEN <<>> ELSE Head(seqs) \o ConcatAll(Tail(seqs))

\* unicodedata.normalize('NFD', char) for one character: the canonical
\* decomposition mapping applied recursively.  (Every mapping of the excerpt
\* is canonical and already in canonical order, so no reordering occurs.)
RECURSIVE normalize_NFD(_)
normalize_NFD(c) ==
    LET d == unicodedata_decomposition(c) IN
    IF d = <<>> THEN <<c>>
    ELSE ConcatAll([i \in 1..Len(d) |-> normalize_NFD(d[i])])

\* Python's `sub in s` on text.
Contains(sub, s) ==
    \E i \in 0..(Len(s) - Len(sub)) :
        \A j \in 1..Len(sub) : s[i + j] = sub[j]

\* category.startswith('M')
StartsWithM(category) == Len(category) > 0 /\ category[1] = "M"

HexDigits ==
    <<"0", "1", "2", "3", "4", "5", "6", "7", "8", "9", "A", "B", "C", "D", "E", "F">>

LowerHexDigits == <<"a", "b", "c", "d", "e", "f">>

RECURSIVE ToHex(_)
ToHex(n) ==
    IF n < 16 THEN <<HexDigits[n + 1]>>
    ELSE ToHex(n \div 16) \o <<HexDigits[(n % 16) + 1]>>

RECURSIVE ZeroPad(_, _)
ZeroPad(digits, width) ==
    IF Len(digits) >= width THEN digits ELSE ZeroPad(<<"0">> \o digits, width)

\* The value of one hexadecimal digit, -1 for any other character.
HexValue(ch) ==
    IF \E d \in 1..16 : HexDigits[d] = ch
    THEN (CHOOSE d \in 1..16 : HexDigits[d] = ch) - 1
    ELSE IF \E d \in 1..6 : LowerHexDigits[d] = ch
         THEN (CHOOSE d \in 1..6 : LowerHexDigits[d] = ch) + 9
         ELSE -1

RECURSIVE HexNumber(_)
HexNumber(text) ==
    IF text = <<>> THEN 0
    ELSE 16 * HexNumber(SubSeq(text, 1, Len(text) - 1)) + HexValue(text[Len(text)])

\* int(text, 16) on plain digit text: -1 stands for ValueError.
int16(text) ==
    IF text # <<>> /\ \A i \in 1..Len(text) : HexValue(text[i]) >= 0
    THEN HexNumber(text)
    ELSE -1

\* chr(n) is defined on range(0x110000) and raises ValueError elsewhere.
ValidChr(n) == n >= 0 /\ n < 1114112

\* str.split(): the maximal runs of non-space characters.
RECURSIVE split(_)
split(text) ==
    IF text = <<>> THEN <<>>
    ELSE IF Head(text) = " " THEN split(Tail(text))
    ELSE LET stop == IF \E i \in 1..Len(text) : text[i] = " "
                     THEN (CHOOSE i \in 1..Len(text) :
                              text[i] = " " /\ \A j \in 1..(i - 1) : text[j] # " ")
                     ELSE Len(text) + 1
         IN  <<SubSeq(text, 1, stop - 1)>> \o split(SubSeq(text, stop, Len(text)))

(***************************************************************************)
(* The program's pure parts                                                *)
(***************************************************************************)

\* ASCII_LETTERS = set('abc...xyzABC...XYZ')
ASCII_LETTERS == (97..122) \cup (65..90)

LATIN == <<"L", "A", "T", "I", "N">>

\* Faulty variant of IsLatin: the name test is dropped.
IsLatin_Always(name) == 1

\* store_data_in_db: is_latin = 1 if 'LATIN' in name else 0
IsLatin(name) == IF Contains(LATIN, CharsOfName(name)) THEN 1 ELSE 0

\* store_data_in_db: the row inserted for one character.
CharacterRow(id, char) ==
    LET name == unicodedata_name(char, "") IN
    [id |-> id, character |-> char, name |-> name,
     decomposition |-> unicodedata_decomposition(char),
     is_latin |-> IsLatin(name), has_ascii_base |-> 0]

\* store_data_in_db: the rows of the table after the loop over characters
\* (INTEGER PRIMARY KEY ids are assigned 1, 2, ... in insertion order).
StoredRows(chars) == [i \in 1..Len(chars) |-> CharacterRow(i, chars[i])]

\* Faulty variant of SelectLatin: SELECT DISTINCT on the character, a row
\* whose character an earlier row holds being dropped.
SelectLatin_Distinct(table) ==
    LET latin == SelectSeq(table, LAMBDA r : r.is_latin = 1)
        first(i) == \A j \in 1..(i - 1) : latin[j].character # latin[i].character
        RECURSIVE keep(_)
        keep(i) == IF i > Len(latin) THEN <<>>
                   ELSE (IF first(i) THEN <<latin[i]>> ELSE <<>>) \o keep(i + 1)
    IN  keep(1)

\* SELECT ... FROM characters WHERE is_latin = 1 (in rowid order).
SelectLatin(table) == SelectSeq(table, LAMBDA r : r.is_latin = 1)

IsMark(c) == StartsWithM(unicodedata_category(c))

\* sum(1 for c in nfd_form[1:] if category(c).startswith('M'))
DiacriticCount(nfd_form) == Len(SelectSeq(Tail(nfd_form), IsMark))

\* Faulty variant of BaseIsAsciiAndHasDiacritic: the test of the base
\* against ASCII_LETTERS is missing.
BaseIsAsciiAndHasDiacritic_AnyBase(nfd_form) ==
    /\ Len(nfd_form) > 1
    /\ DiacriticCount(nfd_form) > 0

\* analyze_characters: base_is_ascii and has_diacritic
BaseIsAsciiAndHasDiacritic(nfd_form) ==
    /\ Len(nfd_form) > 1
    /\ nfd_form[1] \in ASCII_LETTERS
    /\ DiacriticCount(nfd_form) > 0

\* Faulty variant of Diacritics: only the first element of the tail is kept.
Diacritics_FirstOnly(nfd_form) == <<nfd_form[2]>>

\* ''.join(c for c in nfd_form[1:] if category(c).startswith('M'))
Diacritics(nfd_form) == SelectSeq(Tail(nfd_form), IsMark)

\* code_point = f"U+{ord(c):04X}"
FormatCodePoint(c) == <<"U", "+">> \o ZeroPad(ToHex(c), 4)

\* One element of detailed_decomp_parts,
\*   f"{formatted_char} ({char_name}, {code_point})",
\* kept as its fields: nbsp tells whether formatted_char is "&nbsp;c&nbsp;".
DecompPart(c) ==
    [c |-> c,
     nbsp |-> IsMark(c),
     char_name |-> unicodedata_name(c, "UNKNOWN"),
     code_point |-> FormatCodePoint(c)]

\* Faulty variant of DetailedDecomp: the loop runs over the combining marks
\* only, the base getting no part.
DetailedDecomp_MarksOnly(chars) ==
    LET marks == SelectSeq(chars, IsMark) IN
    [i \in 1..Len(marks) |-> DecompPart(marks[i])]

\* detailed_decomp_parts for the characters `chars`, in order (the joined
\* string keeps the parts' order and content).
DetailedDecomp(chars) == [i \in 1..Len(chars) |-> DecompPart(chars[i])]

\* The tuple appended for a matching character.
LiveResult(char, nfd_form) ==
    [character |-> <<char>>,
     base_char |-> nfd_form[1],
     diacritics |-> Diacritics(nfd_form),
     detailed_decomp |-> DetailedDecomp(nfd_form)]

\* Faulty variant of GoesToOneDiacritic: the comparison is <= 2.
GoesToOneDiacritic_UpToTwo(diacritics) == Len(diacritics) <= 2

\* if len(diacritics) == 1:
GoesToOneDiacritic(diacritics) == Len(diacritics) = 1

\* Faulty variant of AppendResult: the second branch is a test of its own
\* (len(diacritics) >= 1) instead of the else.
AppendResult_BothTests(one, two, result) ==
    <<IF Len(result.diacritics) = 1 THEN Append(one, result) ELSE one,
      IF Len(result.diacritics) >= 1 THEN Append(two, result) ELSE two>>

\* The two result lists after the tuple of a matching character is appended:
\* if len(diacritics) == 1 the first list grows, else the second.
AppendResult(one, two, result) ==
    IF GoesToOneDiacritic(result.diacritics)
    THEN <<Append(one, result), two>>
    ELSE <<one, Append(two, result)>>

\* chars = [chr(int(cp[2:], 16)) for cp in code_points]; -1 marks an element
\* on which int() or chr() raises ValueError.
PatternChars(pattern) ==
    LET code_points == split(pattern) IN
    [i \in 1..Len(code_points) |->
        LET n == int16(SubSeq(code_points[i], 3, Len(code_points[i]))) IN
        IF ValidChr(n) THEN n ELSE -1]

\* The exception one pattern's loop body raises ("" when it raises none):
\* ValueError in the list comprehension, IndexError at chars[0] or chars[1].
PatternError(pattern) ==
    LET chars == PatternChars(pattern) IN
    IF \E i \in 1..Len(chars) : chars[i] = -1 THEN "ValueError"
    ELSE IF Len(chars) < 2 THEN "IndexError"
    ELSE ""

\* Faulty variant of OtherResult: the parts are built from the NFD form of
\* the combined string instead of from the entry's own characters.
OtherResult_Normalized(pattern) ==
    LET chars == PatternChars(pattern) IN
    [character |-> chars,
     base_char |-> chars[1],
     diacritics |-> <<chars[2]>>,
     detailed_decomp |->
        DetailedDecomp(ConcatAll([i \in 1..Len(chars) |-> normalize_NFD(chars[i])]))]

\* The tuple appended for one pattern.
OtherResult(pattern) ==
    LET chars == PatternChars(pattern) IN
    [character |-> chars,
     base_char |-> chars[1],
     diacritics |-> <<chars[2]>>,
     detailed_decomp |-> DetailedDecomp(chars)]

\* Faulty variant of process_other_latin_lgr_occurrences: the loop body is
\* wrapped in try/except, an entry that raises being skipped.
process_other_skipping(table) ==
    LET kept == SelectSeq(table, LAMBDA p : PatternError(p) = "") IN
    [raised |-> "", results |-> [i \in 1..Len(kept) |-> OtherResult(kept[i])]]

\* Faulty variant of process_other_latin_lgr_occurrences: the entries are
\* gated like live characters, an entry whose base is not in ASCII_LETTERS
\* being skipped.
process_other_gated(table) ==
    LET kept == SelectSeq(table, LAMBDA p : PatternChars(p)[1] \in ASCII_LETTERS) IN
    [raised |-> "", results |-> [i \in 1..Len(kept) |-> OtherResult(kept[i])]]

\* process_other_latin_lgr_occurrences over the table `table`: the results
\* in table order, or the first exception raised (no result is returned then).
process_other_latin_lgr_occurrences(table) ==
    IF \E i \in 1..Len(table) : PatternError(table[i]) # ""
    THEN LET first == CHOOSE i \in 1..Len(table) :
                         /\ PatternError(table[i]) # ""
                         /\ \A j \in 1..(i - 1) : PatternError(table[j]) = ""
         IN  [raised |-> PatternError(table[first]), results |-> <<>>]
    ELSE [raised |-> "", results |-> [i \in 1..Len(table) |-> OtherResult(table[i])]]

\* fetch_data_from_url: the characters kept from the table cells' text,
\* ord(char) > 127.
NonAscii(text) == SelectSeq(text, LAMBDA c : c > 127)

\* fetch_data_from_url: remove duplicates while preserving order.
RECURSIVE UniqueChars(_)
UniqueChars(chars) ==
    IF chars = <<>> THEN <<>>
    ELSE LET init == UniqueChars(SubSeq(chars, 1, Len(chars) - 1))
             last == chars[Len(chars)]
         IN  IF \E i \in 1..Len(init) : init[i] = last THEN init
             ELSE Append(init, last)

(***************************************************************************)
(* The run of main()                                                       *)
(***************************************************************************)

VARIABLES
    pc,                     \* the statement of main() about to run
    patterns,               \* the table of process_other_latin_lgr_occurrences
    characters,             \* main: the list fetch_data_from_url returned
    conn,                   \* main: "none" (unbound), "open" or "closed"
    rows,                   \* the rows of the database table `characters`
    latin_chars,            \* analyze_characters: the fetched rows
    idx,                    \* analyze_characters: position of the row loop
    one_diacritic_results,  \* analyze_characters: first result list
    two_diacritics_results, \* analyze_characters: second result list
    results_tuple,          \* main: <<>> until analyze_characters returned
    total_results,          \* main: the printed total
    other_lgr_occurrences,  \* generate_pdf_report: the table's results
    temp_files,             \* the files in tempfile.gettempdir()
    main_font,              \* generate_pdf_report: the font setup_fonts chose
    pdf_written,            \* doc.build(content) has written the report
    output,                 \* the lines printed so far
    error                   \* the exception main's handler caught, or ""

vars ==
    <<pc, patterns, characters, conn, rows, latin_chars, idx,
      one_diacritic_results, two_diacritics_results, results_tuple,
      total_results, other_lgr_occurrences, temp_files, main_font,
      pdf_written, output, error>>

\* The candidate characters of the runs explored: b, U+0080 (no name),
\* a-acute, a-dot-above-macron, ae-acute, e-dot-below, ANGSTROM SIGN, U+4E2D.
Candidates == {98, 128, 225, 481, 509, 7865, 8491, 20013}

BoundedSeq(S, n) == UNION {[1..k -> S] : k \in 0..n}

FontFiles == {"NotoSans-Regular.ttf", "NotoSans-Bold.ttf"}

\* The state when main() is entered, the table being `table`.
Start(table) ==
    /\ pc = "fetch"
    /\ patterns = table
    /\ characters = <<>>
    /\ conn = "none"
    /\ rows = <<>>
    /\ latin_chars = <<>>
    /\ idx = 1
    /\ one_diacritic_results = <<>>
    /\ two_diacritics_results = <<>>
    /\ results_tuple = <<>>
    /\ total_results = 0
    /\ other_lgr_occurrences = <<>>
    /\ temp_files = {}
    /\ main_font = "Arial"
    /\ pdf_written = FALSE
    /\ output = <<>>
    /\ error = ""

Init == Start(PATTERNS)

\* characters = fetch_data_from_url(URL): the non-ASCII characters of the
\* document's short table cells, first occurrences only; or the request
\* raises.
Fetch ==
    /\ pc = "fetch"
    /\ \/ \E text \in BoundedSeq(Candidates, MaxLen) :
            /\ characters' = UniqueChars(NonAscii(text))
            /\ output' = output \o <<"Fetching data", "Found unique characters">>
            /\ pc' = "setup_db"
            /\ error' = error
       \/ /\ output' = Append(output, "Fetching data")
          /\ error' = "RequestException"
          /\ pc' = "except"
          /\ characters' = characters
    /\ UNCHANGED <<patterns, conn, rows, latin_chars, idx, one_diacritic_results,
                   two_diacritics_results, results_tuple, total_results,
                   other_lgr_occurrences, temp_files, main_font, pdf_written>>

\* conn = setup_temp_database()
SetupDb ==
    /\ pc = "setup_db"
    /\ conn' = "open"
    /\ rows' = <<>>
    /\ pc' = "store"
    /\ UNCHANGED <<patterns, characters, latin_chars, idx, one_diacritic_results,
                   two_diacritics_results, results_tuple, total_results,
                   other_lgr_occurrences, temp_files, main_font, pdf_written,
                   output, error>>

\* store_data_in_db(characters, conn)
Store ==
    /\ pc = "store"
    /\ rows' = StoredRows(characters)
    /\ pc' = "analyze"
    /\ UNCHANGED <<patterns, characters, conn, latin_chars, idx,
                   one_diacritic_results, two_diacritics_results, results_tuple,
                   total_results, other_lgr_occurrences, temp_files, main_font,
                   pdf_written, output, error>>

\* analyze_characters(conn), up to the row loop
AnalyzeSelect ==
    /\ pc = "analyze"
    /\ latin_chars' = SelectLatin(rows)
    /\ idx' = 1
    /\ one_diacritic_results' = <<>>
    /\ two_diacritics_results' = <<>>
    /\ pc' = "analyze_loop"
    /\ UNCHANGED <<patterns, characters, conn, rows, results_tuple, total_results,
                   other_lgr_occurrences, temp_files, main_font, pdf_written,
                   output, error>>

\* analyze_characters: one pass of `for char_id, char, name, decomposition`
AnalyzeRow ==
    /\ pc = "analyze_loop"
    /\ idx <= Len(latin_chars)
    /\ LET row == latin_chars[idx]
           nfd_form == normalize_NFD(row.character)
       IN  IF BaseIsAsciiAndHasDiacritic(nfd_form)
           THEN /\ rows' = [i \in 1..Len(rows) |->
                               IF rows[i].id = row.id
                               THEN [rows[i] EXCEPT !.has_ascii_base = 1]
                               ELSE rows[i]]
                /\ LET lists == AppendResult(one_diacritic_results,
                                             two_diacritics_results,
                                             LiveResult(row.character, nfd_form))
                   IN  /\ one_diacritic_results' = lists[1]
                       /\ two_diacritics_results' = lists[2]
           ELSE UNCHANGED <<rows, one_diacritic_results, two_diacritics_results>>
    /\ idx' = idx + 1
    /\ UNCHANGED <<pc, patterns, characters, conn, latin_chars, results_tuple,
                   total_results, other_lgr_occurrences, temp_files, main_font,
                   pdf_written, output, error>>

\* Faulty variant of AnalyzeReturn: the return is reached from inside the
\* row loop, whatever rows are still to be visited.
AnalyzeReturn_Early ==
    /\ pc = "analyze_loop"
    /\ results_tuple' = <<one_diacritic_results, two_diacritics_results>>
    /\ pc' = "summary"
    /\ UNCHANGED <<patterns, characters, conn, rows, latin_chars, idx,
                   one_diacritic_results, two_diacritics_results, total_results,
                   other_lgr_occurrences, temp_files, main_font, pdf_written,
                   output, error>>

\* analyze_characters: conn.commit(); return, and main's unpacking
AnalyzeReturn ==
    /\ pc = "analyze_loop"
    /\ idx > Len(latin_chars)
    /\ results_tuple' = <<one_diacritic_results, two_diacritics_results>>
    /\ pc' = "summary"
    /\ UNCHANGED <<patterns, characters, conn, rows, latin_chars, idx,
                   one_diacritic_results, two_diacritics_results, total_results,
                   other_lgr_occurrences, temp_files, main_font, pdf_written,
                   output, error>>

\* Faulty variant of Summary: the total counts the first list only.
Summary_FirstListOnly ==
    /\ pc = "summary"
    /\ total_results' = Len(results_tuple[1])
    /\ output' = Append(output, "Found total")
    /\ pc' = "report_other"
    /\ UNCHANGED <<patterns, characters, conn, rows, latin_chars, idx,
                   one_diacritic_results, two_diacritics_results, results_tuple,
                   other_lgr_occurrences, temp_files, main_font, pdf_written,
                   error>>

\* main: total_results and the console summary
Summary ==
    /\ pc = "summary"
    /\ total_results' = Len(results_tuple[1]) + Len(results_tuple[2])
    /\ output' = Append(output, "Found total")
    /\ pc' = "report_other"
    /\ UNCHANGED <<patterns, characters, conn, rows, latin_chars, idx,
                   one_diacritic_results, two_diacritics_results, results_tuple,
                   other_lgr_occurrences, temp_files, main_font, pdf_written,
                   error>>

\* generate_pdf_report, up to its prints: the table is expanded here, and an
\* exception of the expansion reaches main's handler.
ReportOther ==
    /\ pc = "report_other"
    /\ LET r == process_other_latin_lgr_occurrences(patterns) IN
       IF r.raised # ""
       THEN /\ error' = r.raised
            /\ pc' = "except"
            /\ UNCHANGED <<other_lgr_occurrences, output>>
       ELSE /\ other_lgr_occurrences' = r.results
            /\ output' = output \o <<"Generating PDF report",
                                      "Found one diacritic",
                                      "Found two diacritics">>
            /\ pc' = "report_fonts"
            /\ error' = error
    /\ UNCHANGED <<patterns, characters, conn, rows, latin_chars, idx,
                   one_diacritic_results, two_diacritics_results, results_tuple,
                   total_results, temp_files, main_font, pdf_written>>

\* setup_fonts(): each missing font file is downloaded into the temporary
\* directory; any exception (a failed download) is caught and Arial is kept.
\* `got` is the set of files the downloads wrote: both missing files, or the
\* first one only, or none.
ReportFonts ==
    /\ pc = "report_fonts"
    /\ \E got \in {{}, {"NotoSans-Regular.ttf"} \ temp_files, FontFiles \ temp_files} :
         /\ temp_files' = temp_files \cup got
         /\ IF temp_files' = FontFiles
            THEN /\ main_font' = "NotoSans"
                 /\ output' = output \o
                      (IF "NotoSans-Regular.ttf" \in got
                       THEN <<"Downloading Noto Sans font">> ELSE <<>>)
                      \o <<"Using Noto Sans fonts">>
            ELSE /\ main_font' = "Arial"
                 /\ output' = output \o <<"Downloading Noto Sans font",
                                           "Note: Using Arial fonts">>
    /\ pc' = "report_build"
    /\ UNCHANGED <<patterns, characters, conn, rows, latin_chars, idx,
                   one_diacritic_results, two_diacritics_results, results_tuple,
                   total_results, other_lgr_occurrences, pdf_written, error>>

\* generate_pdf_report: the document is assembled and doc.build(content)
\* writes it, or raises (the output file cannot be written).
ReportBuild ==
    /\ pc = "report_build"
    /\ \/ /\ pdf_written' = TRUE
          /\ pc' = "complete"
          /\ error' = error
       \/ /\ error' = "OSError"
          /\ pc' = "except"
          /\ pdf_written' = pdf_written
    /\ UNCHANGED <<patterns, characters, conn, rows, latin_chars, idx,
                   one_diacritic_results, two_diacritics_results, results_tuple,
                   total_results, other_lgr_occurrences, temp_files, main_font,
                   output>>

\* main: print(f"Analysis complete! ...")
Complete ==
    /\ pc = "complete"
    /\ output' = Append(output, "Analysis complete")
    /\ pc' = "finally"
    /\ UNCHANGED <<patterns, characters, conn, rows, latin_chars, idx,
                   one_diacritic_results, two_diacritics_results, results_tuple,
                   total_results, other_lgr_occurrences, temp_files, main_font,
                   pdf_written, error>>

\* main: except Exception as e: print(f"Error: {e}")
Except ==
    /\ pc = "except"
    /\ output' = Append(output, "Error")
    /\ pc' = "finally"
    /\ UNCHANGED <<patterns, characters, conn, rows, latin_chars, idx,
                   one_diacritic_results, two_diacritics_results, results_tuple,
                   total_results, other_lgr_occurrences, temp_files, main_font,
                   pdf_written, error>>

\* main: finally: if 'conn' in locals(): conn.close()
Finally ==
    /\ pc = "finally"
    /\ conn' = IF conn = "none" THEN "none" ELSE "closed"
    /\ pc' = "done"
    /\ UNCHANGED <<patterns, characters, rows, latin_chars, idx,
                   one_diacritic_results, two_diacritics_results, results_tuple,
                   total_results, other_lgr_occurrences, temp_files, main_font,
                   pdf_written, output, error>>

Next ==
    \/ Fetch
    \/ SetupDb
    \/ Store
    \/ AnalyzeSelect
    \/ AnalyzeRow
    \/ AnalyzeReturn
    \/ Summary
    \/ ReportOther
    \/ ReportFonts
    \/ ReportBuild
    \/ Complete
    \/ Except
    \/ Finally

Spec == Init /\ [][Next]_vars

(***************************************************************************)
(* The classification core on an arbitrary candidate list: the run from    *)
(* store_data_in_db on, the Source having delivered any sequence of        *)
(* characters (ASCII ones and repetitions included).                       *)
(***************************************************************************)
InitCore ==
    /\ pc = "store"
    /\ patterns = PATTERNS
    /\ characters \in BoundedSeq(Candidates, MaxLen)
    /\ conn = "open"
    /\ rows = <<>>
    /\ latin_chars = <<>>
    /\ idx = 1
    /\ one_diacritic_results = <<>>
    /\ two_diacritics_results = <<>>
    /\ results_tuple = <<>>
    /\ total_results = 0
    /\ other_lgr_occurrences = <<>>
    /\ temp_files = {}
    /\ main_font = "Arial"
    /\ pdf_written = FALSE
    /\ output = <<"Fetching data", "Found unique characters">>
    /\ error = ""

NextCore ==
    \/ Store
    \/ AnalyzeSelect
    \/ AnalyzeRow
    \/ AnalyzeReturn
    \/ Summary
    \/ ReportOther
    \/ ReportFonts
    \/ ReportBuild
    \/ Complete
    \/ Except
    \/ Finally

SpecCore == InitCore /\ [][NextCore]_vars

(***************************************************************************)
(* The run of main() of a build whose table has one malformed entry: the   *)
(* shipped table, and the shipped table with its first or its last entry   *)
(* replaced by a malformed one.                                            *)
(***************************************************************************)

\* "U+0061": one code point only
OneCodePoint == <<"U", "+", "0", "0", "6", "1">>

\* "": no code point
NoCodePoint == <<>>

\* "U+00G1 U+0331": not a hexadecimal number
BadHexDigit == <<"U", "+", "0", "0", "G", "1", " ", "U", "+", "0", "3", "3", "1">>

\* "U+110000 U+0301": beyond the last code point
BeyondUnicode ==
    <<"U", "+", "1", "1", "0", "0", "0", "0", " ", "U", "+", "0", "3", "0", "1">>

\* "U+0061 U+0331 U+0301": three code points
ThreeCodePoints ==
    <<"U", "+", "0", "0", "6", "1", " ", "U", "+", "0", "3", "3", "1", " ",
      "U", "+", "0", "3", "0", "1">>

MalformedEntries ==
    {OneCodePoint, NoCodePoint, BadHexDigit, BeyondUnicode, ThreeCodePoints}

PatternTables ==
    {PATTERNS} \cup
    {[PATTERNS EXCEPT ![k] = entry] :
        k \in {1, Len(PATTERNS)}, entry \in MalformedEntries}

InitTable == \E table \in PatternTables : Start(table)

SpecTable == InitTable /\ [][Next]_vars

(***************************************************************************)
(* Properties                                                              *)
(*                                                                         *)
(* The definitions below state the gates and the expected outcomes a       *)
(* second time, from the Unicode data alone, so that the properties        *)
(* compare what the run computed with what the specification asks for.     *)
(***************************************************************************)

Range(s) == {s[i] : i \in 1..Len(s)}

InOutput(line) == line \in Range(output)

\* analyze_characters has returned its two lists to main.
AnalysisReturned == results_tuple # <<>>

OneBucket == results_tuple[1]

TwoBucket == results_tuple[2]

\* The original characters of a list of results, in order.
CharsOf(bucket) == [i \in 1..Len(bucket) |-> bucket[i].character[1]]

Occurrences(s, x) == Cardinality({i \in 1..Len(s) : s[i] = x})

\* The 52 ASCII Latin letters A-Z and a-z.
AsciiLatinLetters == {c \in 0..127 : (c >= 65 /\ c <= 90) \/ (c >= 97 /\ c <= 122)}

\* The positions of the NFD tail of c whose General Category starts with M.
MarkPositions(c) ==
    {i \in 2..Len(normalize_NFD(c)) :
        unicodedata_category(normalize_NFD(c)[i])[1] = "M"}

NameHasLatin(c) ==
    c \in DOMAIN UnicodeName /\ Contains(LATIN, NameChars[UnicodeName[c]])

\* The four classification gates.
PassesGates(c) ==
    /\ NameHasLatin(c)
    /\ Len(normalize_NFD(c)) > 1
    /\ normalize_NFD(c)[1] \in AsciiLatinLetters
    /\ MarkPositions(c) # {}

\* C1: once analyze_characters has returned, a character has a result in one
\* of the two live lists if and only if it is in the input and passes all
\* four gates (LATIN in its name, NFD longer than 1, ASCII letter first,
\* a category-M element in the NFD tail); a character failing a gate is in
\* neither list.
C1_ResultIffAllGates ==
    AnalysisReturned =>
        \A c \in Candidates :
            (c \in Range(CharsOf(OneBucket)) \cup Range(CharsOf(TwoBucket)))
                <=> (c \in Range(characters) /\ PassesGates(c))

\* A run over a-acute (passes), b (no decomposition), ANGSTROM SIGN (no
\* LATIN in the name) and ae-acute (base not ASCII), in any order and number.
C1_Witness ==
    /\ AnalysisReturned
    /\ {225, 8491, 509} \subseteq Range(characters)
    /\ Range(CharsOf(OneBucket)) = {225}
    /\ TwoBucket = <<>>

\* C2: a character that passes the gates is in the first list when its NFD
\* tail has exactly one category-M element and in the second when it has two
\* or more; nothing but that count decides the list.
C2_BucketByMarkCount ==
    AnalysisReturned =>
        /\ \A i \in 1..Len(OneBucket) :
              Cardinality(MarkPositions(OneBucket[i].character[1])) = 1
        /\ \A i \in 1..Len(TwoBucket) :
              Cardinality(MarkPositions(TwoBucket[i].character[1])) >= 2
        /\ \A c \in Range(characters) :
              PassesGates(c) =>
                 /\ Cardinality(MarkPositions(c)) = 1
                       => c \in Range(CharsOf(OneBucket))
                 /\ Cardinality(MarkPositions(c)) >= 2
                       => c \in Range(CharsOf(TwoBucket))

\* Both lists are populated: a-acute and e-dot-below (one mark each) and
\* a-dot-above-macron (two marks).
C2_Witness ==
    /\ AnalysisReturned
    /\ Range(CharsOf(OneBucket)) = {225, 7865}
    /\ Range(CharsOf(TwoBucket)) = {481}

\* C3: each returned list is the subsequence of the input, in input order and
\* with repetitions kept, of the characters classified into it.
C3_BucketsAreInputSubsequences ==
    AnalysisReturned =>
        /\ CharsOf(OneBucket) =
              SelectSeq(characters,
                        LAMBDA c : PassesGates(c) /\ Cardinality(MarkPositions(c)) = 1)
        /\ CharsOf(TwoBucket) =
              SelectSeq(characters,
                        LAMBDA c : PassesGates(c) /\ Cardinality(MarkPositions(c)) >= 2)

\* a-acute is given twice, around e-dot-below, and has two results.
C3_Witness ==
    /\ AnalysisReturned
    /\ characters = <<225, 7865, 225>>
    /\ CharsOf(OneBucket) = <<225, 7865, 225>>

\* C4: at every point of the classification pass no character has results in
\* both lists, no character has more results than it has occurrences in the
\* input, and the two lists together hold at most one result per row visited.
C4_AtMostOneOutcome ==
    pc \in {"analyze_loop", "summary", "report_other"} =>
        /\ Range(CharsOf(one_diacritic_results))
              \cap Range(CharsOf(two_diacritics_results)) = {}
        /\ \A c \in Candidates :
              Occurrences(CharsOf(one_diacritic_results), c)
                + Occurrences(CharsOf(two_diacritics_results), c)
                    <= Occurrences(characters, c)
        /\ Len(one_diacritic_results) + Len(two_diacritics_results) <= idx - 1

\* A finished pass over a one-mark character given twice and a two-mark
\* character: two results in the first list, one in the second.
C4_Witness ==
    /\ pc = "summary"
    /\ characters = <<225, 481, 225>>
    /\ Len(one_diacritic_results) = 2
    /\ Len(two_diacritics_results) = 1

\* process_other_latin_lgr_occurrences has returned to generate_pdf_report.
OtherReturned == InOutput("Generating PDF report")

\* The scalar values of the parts of a detailed decomposition, in order.
ScalarsOf(detailed_decomp) ==
    [i \in 1..Len(detailed_decomp) |-> detailed_decomp[i].c]

LiveResults == one_diacritic_results \o two_diacritics_results

\* The 14 entries of the fixed table, read as scalar values: a, e, g, i, m,
\* n, n, o, o, r with one mark, then e-dot-below and o-dot-below with one.
TableEntries ==
    << <<97, 817>>, <<101, 817>>, <<103, 771>>, <<105, 817>>, <<109, 807>>,
       <<110, 772>>, <<110, 776>>, <<111, 807>>, <<111, 817>>, <<114, 771>>,
       <<7865, 768>>, <<7865, 769>>, <<7885, 768>>, <<7885, 769>> >>

\* C5, as claimed: every result of the three collections has one of the 52
\* ASCII Latin letters as its base character.
C5_EveryBaseIsAscii ==
    /\ \A i \in 1..Len(LiveResults) : LiveResults[i].base_char \in AsciiLatinLetters
    /\ \A i \in 1..Len(other_lgr_occurrences) :
          other_lgr_occurrences[i].base_char \in AsciiLatinLetters

\* C5, amended: every result of the two live lists has one of the 52 ASCII
\* Latin letters as its base character; a result of the "other" collection
\* has the first scalar value of its table entry as its base character,
\* which is an ASCII letter for the first ten entries and U+1EB9 or U+1ECD
\* (not ASCII) for the last four.
C5_LiveBasesAreAscii ==
    /\ \A i \in 1..Len(LiveResults) : LiveResults[i].base_char \in AsciiLatinLetters
    /\ \A i \in 1..Len(other_lgr_occurrences) :
          /\ other_lgr_occurrences[i].base_char = TableEntries[i][1]
          /\ other_lgr_occurrences[i].base_char \in AsciiLatinLetters <=> i <= 10
          /\ i > 10 => other_lgr_occurrences[i].base_char \in {7865, 7885}

\* The input held ae-acute (Latin, decomposable, base U+00E6) next to
\* a-acute, and the table has been expanded.
C5_Witness ==
    /\ OtherReturned
    /\ {225, 509} \subseteq Range(characters)
    /\ Len(LiveResults) > 0
    /\ Len(other_lgr_occurrences) > 10

\* C6: the diacritics of a live result are not empty and are the category-M
\* elements of the NFD tail in decomposition order; the detailed
\* decomposition has a part for every NFD element, padded exactly when the
\* element is of category M (so an element outside M keeps its part, unpadded).
C6_DiacriticsAreTheMarks ==
    \A i \in 1..Len(LiveResults) :
        LET r == LiveResults[i]
            nfd == normalize_NFD(r.character[1])
        IN  /\ r.diacritics # <<>>
            /\ r.diacritics =
                  SelectSeq(Tail(nfd), LAMBDA c : unicodedata_category(c)[1] = "M")
            /\ Len(r.detailed_decomp) = Len(nfd)
            /\ \A k \in 1..Len(nfd) :
                  /\ r.detailed_decomp[k].c = nfd[k]
                  /\ r.detailed_decomp[k].nbsp = (unicodedata_category(nfd[k])[1] = "M")

\* A result with two marks (a-dot-above-macron: U+0307 then U+0304) whose
\* base part is unpadded and whose mark parts are padded.
C6_Witness ==
    \E i \in 1..Len(two_diacritics_results) :
        LET r == two_diacritics_results[i] IN
        /\ r.diacritics = <<775, 772>>
        /\ ~r.detailed_decomp[1].nbsp
        /\ r.detailed_decomp[2].nbsp
        /\ r.detailed_decomp[3].nbsp

\* C7: the detailed decomposition of a live result has as many parts as the
\* NFD form of the character has elements, which is 1 plus the number of
\* combining marks in the result's diacritics.
C7_BreakdownLength ==
    \A i \in 1..Len(LiveResults) :
        LET r == LiveResults[i] IN
        /\ Len(r.detailed_decomp) = Len(normalize_NFD(r.character[1]))
        /\ Len(normalize_NFD(r.character[1])) = 1 + Len(r.diacritics)

\* Results with two parts and with three parts exist.
C7_Witness ==
    /\ \E i \in 1..Len(LiveResults) : Len(LiveResults[i].detailed_decomp) = 2
    /\ \E i \in 1..Len(LiveResults) : Len(LiveResults[i].detailed_decomp) = 3

\* C8: the scalar values of the parts of a live result spell the NFD form of
\* its character; those of an "other" result spell its table entry, which is
\* also its combined character, and the parts' labels are the entry's code
\* points as the table writes them.
C8_RoundTrip ==
    /\ \A i \in 1..Len(LiveResults) :
          ScalarsOf(LiveResults[i].detailed_decomp)
              = normalize_NFD(LiveResults[i].character[1])
    /\ \A i \in 1..Len(other_lgr_occurrences) :
          LET r == other_lgr_occurrences[i] IN
          /\ ScalarsOf(r.detailed_decomp) = TableEntries[i]
          /\ r.character = TableEntries[i]
          /\ [k \in 1..Len(r.detailed_decomp) |-> r.detailed_decomp[k].code_point]
                = split(patterns[i])

\* A live result of three scalar values and the expanded table, whose 11th
\* entry (U+1EB9 U+0300) is not in NFD form.
C8_Witness ==
    /\ \E i \in 1..Len(LiveResults) :
          ScalarsOf(LiveResults[i].detailed_decomp) = <<97, 775, 772>>
    /\ Len(other_lgr_occurrences) > 10
    /\ ScalarsOf(other_lgr_occurrences[11].detailed_decomp) = <<7865, 768>>
    /\ normalize_NFD(7865) # <<7865>>

\* C9: whatever the live input, once the table is expanded the "other"
\* collection has one result per table entry, in table order, with the
\* entry's two scalar values as combined character, the first as base and
\* the second as diacritic, no entry being gated out; and with an empty live
\* input both live lists are empty.
C9_OtherIsTheTable ==
    /\ OtherReturned =>
          /\ Len(other_lgr_occurrences) = Len(TableEntries)
          /\ \A i \in 1..Len(TableEntries) :
                /\ other_lgr_occurrences[i].character = TableEntries[i]
                /\ other_lgr_occurrences[i].base_char = TableEntries[i][1]
                /\ other_lgr_occurrences[i].diacritics = <<TableEntries[i][2]>>
    /\ (AnalysisReturned /\ characters = <<>>) =>
          (OneBucket = <<>> /\ TwoBucket = <<>>)

\* The empty live input: no live result, 14 "other" results.
C9_Witness ==
    /\ OtherReturned
    /\ characters = <<>>
    /\ OneBucket = <<>>
    /\ TwoBucket = <<>>
    /\ Cardinality(DOMAIN other_lgr_occurrences) = Cardinality(DOMAIN PATTERNS)
    /\ other_lgr_occurrences # <<>>

\* The table has an entry with the wrong number of code points or with a
\* code point that cannot be resolved.
TableMalformed == \E k \in 1..Len(patterns) : patterns[k] \in MalformedEntries

\* The table has an entry with fewer than two code points or with a code
\* point that cannot be resolved.
TableFaulty ==
    \E k \in 1..Len(patterns) :
        patterns[k] \in {OneCodePoint, NoCodePoint, BadHexDigit, BeyondUnicode}

\* The exception came from the expansion of the table.
ExpanderFault == error \in {"ValueError", "IndexError"}

ReportHanded == pc = "report_other" \/ OtherReturned \/ ExpanderFault

\* The lists main holds come from a pass that stored every character of the
\* input and visited every selected row.
PassCompleted ==
    /\ Len(rows) = Len(characters)
    /\ \A i \in 1..Len(rows) : rows[i].character = characters[i]
    /\ idx = Len(latin_chars) + 1
    /\ results_tuple = <<one_diacritic_results, two_diacritics_results>>
    /\ CharsOf(OneBucket) =
          SelectSeq(characters,
                    LAMBDA c : PassesGates(c) /\ Cardinality(MarkPositions(c)) = 1)
    /\ CharsOf(TwoBucket) =
          SelectSeq(characters,
                    LAMBDA c : PassesGates(c) /\ Cardinality(MarkPositions(c)) >= 2)

\* An exception is raised only by a step that hands control to main's
\* handler, and the handler passes on to the finally clause.
RaisedIsHandled ==
    /\ error' # error => (error = "" /\ pc' = "except")
    /\ pc = "except" => (pc' = "finally" /\ Occurrences(output', "Error") = 1)
    /\ pc = "finally" => pc' = "done"

\* C11: in every run of main the report step is handed the lists of a
\* completed classification pass, or the run ends with one reported fault
\* and the report step is never reached; every exception raised is reported
\* by main's handler, once, and the run goes on to main's return.
C11_Buckets ==
    /\ ReportHanded => PassCompleted
    /\ pc = "done" =>
          \/ ReportHanded
          \/ /\ error # ""
             /\ Occurrences(output, "Error") = 1
             /\ other_lgr_occurrences = <<>>
             /\ ~pdf_written
    /\ pc = "except" => error # ""
    /\ (pc = "done" /\ error # "") => Occurrences(output, "Error") = 1
    /\ (pc = "done" /\ error = "") => ~InOutput("Error")
    /\ pc \in {"fetch", "setup_db", "store", "analyze", "analyze_loop", "summary",
               "report_other", "report_fonts", "report_build", "complete",
               "except", "finally", "done"}

C11_CompleteBucketsOrSingleFault == []C11_Buckets /\ [][RaisedIsHandled]_vars

\* The report step has been handed the lists of a pass over three stored
\* characters, two of which match.
C11_Witness ==
    /\ pc = "report_other"
    /\ Len(characters) = 3
    /\ Len(latin_chars) = 3
    /\ Len(OneBucket) + Len(TwoBucket) = 2

\* The parts of every detailed decomposition recorded so far.
RecordedParts ==
    UNION {Range(LiveResults[i].detailed_decomp) : i \in 1..Len(LiveResults)}
      \cup UNION {Range(other_lgr_occurrences[i].detailed_decomp) :
                     i \in 1..Len(other_lgr_occurrences)}

\* C12: a scalar value the Unicode data has no name for is recorded with the
\* name "UNKNOWN", in its row of the characters table and in every part of a
\* detailed decomposition; no recorded name is empty.
C12_MissingNameIsUnknown ==
    /\ \A i \in 1..Len(rows) :
          /\ rows[i].name # ""
          /\ rows[i].character \notin DOMAIN UnicodeName => rows[i].name = "UNKNOWN"
    /\ \A p \in RecordedParts :
          /\ p.char_name # ""
          /\ p.c \notin DOMAIN UnicodeName => p.char_name = "UNKNOWN"

\* The number of input occurrences that pass the classification gates.
MatchingOccurrences ==
    Cardinality({i \in 1..Len(characters) : PassesGates(characters[i])})

\* C13: the printed total is the number of results of the first list plus
\* that of the second, which is the number of input occurrences that pass
\* the gates (an excluded character adds nothing); it stays so once the
\* "other" collection is expanded, whose count is no part of it.
C13_TotalIsSumOfLiveBuckets ==
    InOutput("Found total") =>
        /\ total_results = Len(OneBucket) + Len(TwoBucket)
        /\ total_results = MatchingOccurrences
        /\ OtherReturned =>
              /\ Len(other_lgr_occurrences) > 0
              /\ total_results # Len(OneBucket) + Len(TwoBucket)
                                   + Len(other_lgr_occurrences)

\* The input a-acute, b, a-dot-above-macron: b is excluded, the total is 2,
\* with one result in each list and the "other" collection expanded.
C13_Witness ==
    /\ OtherReturned
    /\ characters = <<225, 98, 481>>
    /\ Len(OneBucket) = 1
    /\ Len(TwoBucket) = 1
    /\ total_results = 2

\* C14: when main has finished, no file is left in the temporary directory
\* (it was empty when main started) and the database connection, if it was
\* opened, is closed.
C14_NothingLeftBehind ==
    pc = "done" =>
        /\ temp_files = {}
        /\ conn # "open"
=============================================================================
